---- MODULE Spec2Model ----
(***************************************************************************)
(* A model of udstyle.py: the CoNLL-U reader (conllureader, renumber) and  *)
(* the per-sentence complexity metrics (complexitymetrics, mean) as they   *)
(* are called from analyze.                                                *)
(*                                                                         *)
(* A line of the stream is a record: kind is "blank" (line == '\n'),       *)
(* "comment" (line.startswith('#')) or "token"; a token line carries the   *)
(* fields the code reads.  The ID and HEAD fields of a line are texts,     *)
(* modelled as sequences of one-character strings, and are converted by    *)
(* int as the code converts them.  The lines of the model have an integer, *)
(* a range or a decimal ID; other ID texts make int raise at line 160 and  *)
(* are not part of the model.                                              *)
(***************************************************************************)
EXTENDS Integers, Sequences, FiniteSets

\* excludepunct, line, sent and result are those of conllureader; keyerror
\* records that the except clause of lines 146-147 was taken; pc is
\* "reading" in the loop of conllureader, "nosentences" when it raised at
\* line 167, "returned" when it returned to analyze, and "analyzed" or
\* "raised" when complexitymetrics returned or raised; metrics is what
\* complexitymetrics gave.
VARIABLES excludepunct, line, sent, result, keyerror, pc, metrics

vars == <<excludepunct, line, sent, result, keyerror, pc, metrics>>

\* The most token lines kept at one time in sent and result together.
MaxTokens == 2

----------------------------------------------------------------------------
(* Texts and int()                                                         *)

Digits == {"0", "1", "2", "3", "4", "5", "6", "7", "8", "9"}

DigitVal(c) ==
    CASE c = "0" -> 0 [] c = "1" -> 1 [] c = "2" -> 2 [] c = "3" -> 3
      [] c = "4" -> 4 [] c = "5" -> 5 [] c = "6" -> 6 [] c = "7" -> 7
      [] c = "8" -> 8 [] c = "9" -> 9

\* c in text
Contains(text, c) == \E i \in 1..Len(text) : text[i] = c

\* text[:text.index(c)]
Before(text, c) ==
    LET i == CHOOSE k \in 1..Len(text) :
                 text[k] = c /\ \A j \in 1..(k - 1) : text[j] # c
    IN  SubSeq(text, 1, i - 1)

\* int(text) raises ValueError
IntRaises(text) == text = <<>> \/ \E i \in 1..Len(text) : text[i] \notin Digits

RECURSIVE IntOf(_)
\* int(text), for a text of decimal digits
IntOf(text) ==
    IF text = <<>> THEN 0
    ELSE 10 * IntOf(SubSeq(text, 1, Len(text) - 1)) + DigitVal(text[Len(text)])

----------------------------------------------------------------------------
(* The lines of the input stream                                           *)

NoLine == [kind |-> "none", ID |-> <<>>, FORM |-> "", UPOS |-> "",
           HEAD |-> <<>>, DEPREL |-> ""]
BlankLine == [NoLine EXCEPT !.kind = "blank"]
CommentLine == [NoLine EXCEPT !.kind = "comment"]

HeadTexts == {<<"_">>, <<"0">>, <<"1">>, <<"2">>}

\* Ordinary tokens: form, coarse tag and relation go together.
Words == {<<"The", "DET", "det">>, <<"cat", "NOUN", "root">>,
          <<"sat", "VERB", "conj">>, <<".", "PUNCT", "punct">>}

WordLines ==
    {[kind |-> "token", ID |-> i, FORM |-> w[1], UPOS |-> w[2],
      HEAD |-> h, DEPREL |-> w[3]] :
        i \in {<<"1">>, <<"2">>}, w \in Words, h \in HeadTexts}

\* Multiword-token headers, with the usual placeholder HEAD and with a
\* numeric one.
RangeLines ==
    {[kind |-> "token", ID |-> <<"1", "-", "2">>, FORM |-> "don't",
      UPOS |-> "_", HEAD |-> h, DEPREL |-> "_"] : h \in {<<"_">>, <<"0">>}}

\* Empty nodes.
DecimalLines ==
    {[kind |-> "token", ID |-> <<"1", ".", "1">>, FORM |-> "e",
      UPOS |-> u, HEAD |-> h, DEPREL |-> "_"] :
        u \in {"_", "PUNCT"}, h \in {<<"_">>, <<"0">>}}

TokenLines == WordLines \cup RangeLines \cup DecimalLines

----------------------------------------------------------------------------
(* renumber                                                                *)

\* The keys of mapping, 0 included.
MappingKeys(s) == {s[n].ID : n \in 1..Len(s)} \cup {0}

\* mapping[k]: a later line with the same ID overwrites an earlier one.
Mapping(s, k) ==
    IF k = 0 THEN 0
    ELSE CHOOSE n \in 1..Len(s) :
             s[n].ID = k /\ \A m \in (n + 1)..Len(s) : s[m].ID # k

\* renumber(s) raises KeyError
RenumberRaises(s) == \E n \in 1..Len(s) : s[n].HEAD \notin MappingKeys(s)

\* renumber with the HEAD fields left as they were.
renumberIDsOnly(s) ==
    [n \in 1..Len(s) |-> [s[n] EXCEPT !.ID = Mapping(s, s[n].ID)]]

renumber(s) ==
    [n \in 1..Len(s) |->
        [s[n] EXCEPT !.ID = Mapping(s, s[n].ID),
                     !.HEAD = Mapping(s, s[n].HEAD)]]

----------------------------------------------------------------------------
(* mean and complexitymetrics.  A quotient of two integers is kept as the  *)
(* pair [num, den]; the code's float is their quotient.                    *)

Abs(x) == IF x < 0 THEN -x ELSE x

RECURSIVE SeqSum(_)
\* sum(seq)
SeqSum(seq) == IF seq = <<>> THEN 0 ELSE Head(seq) + SeqSum(Tail(seq))

\* A Python bool used as a number.
Bool(b) == IF b THEN 1 ELSE 0

\* mean(iterable) raises ZeroDivisionError
meanRaises(seq) == Len(seq) = 0

\* mean dividing by len(seq) - 1.
meanSample(seq) == [num |-> SeqSum(seq), den |-> Len(seq) - 1]

mean(seq) == [num |-> SeqSum(seq), den |-> Len(seq)]

exclude == {"fixed", "flat", "conj", "punct"}

content == {"ADJ", "ADV", "INTJ", "NOUN", "PROPN", "VERB"}

NotExcluded(tok) == tok.DEPREL \notin exclude

\* The distances MDD averages: those of the lines whose DEPREL is not in
\* exclude.
Distances(s) ==
    LET kept == SelectSeq(s, NotExcluded)
    IN  [n \in 1..Len(kept) |-> Abs(kept[n].ID - kept[n].HEAD)]

MDD(s) == mean(Distances(s))

\* [line[DEPREL] for line in sent].index('root') raises ValueError
RootRaises(s) == \A n \in 1..Len(s) : s[n].DEPREL # "root"

\* [line[DEPREL] for line in sent].index('root'), counted from 0
RootIndex(s) ==
    CHOOSE n \in 0..(Len(s) - 1) :
        s[n + 1].DEPREL = "root" /\ \A m \in 1..n : s[m].DEPREL # "root"

\* NDD is abs(log(mdd / sqrt(root * len))): its arguments are kept, the
\* logarithm is not evaluated.
NDD(s) == [mdd |-> MDD(s), root |-> RootIndex(s) + 1, len |-> Len(s)]

\* log raises ValueError (math domain error): mdd / sqrt(...) is 0.0
LogRaises(s) == MDD(s).num = 0

\* ADJD that does not count a token attached to the virtual root.
ADJDNoRoot(s) ==
    mean([n \in 1..Len(s) |->
             Bool(s[n].HEAD # 0 /\ Abs(s[n].ID - s[n].HEAD) = 1)])

ADJD(s) == mean([n \in 1..Len(s) |-> Bool(Abs(s[n].ID - s[n].HEAD) = 1)])

LEFT(s) == mean([n \in 1..Len(s) |-> Bool(s[n].ID < s[n].HEAD)])

MOD(s) == mean([n \in 1..Len(s) |-> Bool(s[n].DEPREL = "nmod")])

Verbs(s) == SeqSum([n \in 1..Len(s) |-> Bool(s[n].UPOS = "VERB")])

CLS(s) == 1 + Verbs(s)

CLL(s) == [num |-> Len(s), den |-> IF Verbs(s) > 1 THEN Verbs(s) ELSE 1]

LXD(s) ==
    [num |-> SeqSum([n \in 1..Len(s) |-> Bool(s[n].UPOS \in content)]),
     den |-> Len(s)]

\* The exception complexitymetrics(sentences) raises, "" when it returns.
\* MDD is computed for every sentence before NDD is computed for any.
MetricsError(sentences) ==
    LET N == Len(sentences)
        bad(k) == RootRaises(sentences[k]) \/ LogRaises(sentences[k])
    IN  IF \E k \in 1..N : meanRaises(Distances(sentences[k]))
        THEN "ZeroDivisionError"
        ELSE IF \E k \in 1..N : bad(k)
        THEN LET k == CHOOSE j \in 1..N : bad(j) /\ \A i \in 1..(j - 1) : ~bad(i)
             IN  IF RootRaises(sentences[k]) THEN "ValueError: 'root' is not in list"
                 ELSE "ValueError: math domain error"
        ELSE ""

\* complexitymetrics leaving NDD out when it cannot be computed.
complexitymetricsPartial(sentences) ==
    LET N == Len(sentences)
    IN  IF MetricsError(sentences) = "ZeroDivisionError"
        THEN [status |-> "ZeroDivisionError"]
        ELSE [status |-> "ok",
              LEN |-> [k \in 1..N |-> Len(sentences[k])],
              MDD |-> [k \in 1..N |-> MDD(sentences[k])],
              ADJD |-> [k \in 1..N |-> ADJD(sentences[k])],
              LEFT |-> [k \in 1..N |-> LEFT(sentences[k])],
              MOD |-> [k \in 1..N |-> MOD(sentences[k])],
              CLS |-> [k \in 1..N |-> CLS(sentences[k])],
              CLL |-> [k \in 1..N |-> CLL(sentences[k])],
              LXD |-> [k \in 1..N |-> LXD(sentences[k])]]

complexitymetrics(sentences) ==
    LET N == Len(sentences)
    IN  IF MetricsError(sentences) # ""
        THEN [status |-> MetricsError(sentences)]
        ELSE [status |-> "ok",
              LEN |-> [k \in 1..N |-> Len(sentences[k])],
              MDD |-> [k \in 1..N |-> MDD(sentences[k])],
              NDD |-> [k \in 1..N |-> NDD(sentences[k])],
              ADJD |-> [k \in 1..N |-> ADJD(sentences[k])],
              LEFT |-> [k \in 1..N |-> LEFT(sentences[k])],
              MOD |-> [k \in 1..N |-> MOD(sentences[k])],
              CLS |-> [k \in 1..N |-> CLS(sentences[k])],
              CLL |-> [k \in 1..N |-> CLL(sentences[k])],
              LXD |-> [k \in 1..N |-> LXD(sentences[k])]]

----------------------------------------------------------------------------
(* conllureader                                                            *)

Tokens(sentences) ==
    LET RECURSIVE Sum(_)
        Sum(k) == IF k = 0 THEN 0 ELSE Len(sentences[k]) + Sum(k - 1)
    IN  Sum(Len(sentences))

\* fields[ID] after lines 153-160, for a line that is not skipped there.
ParsedID(l) ==
    IF Contains(l.ID, "-") THEN IntOf(Before(l.ID, "-")) ELSE IntOf(l.ID)

\* The line is skipped: an empty node, excluded punctuation, or a HEAD
\* that int rejects.
Skipped(l) ==
    \/ Contains(l.ID, ".")
    \/ excludepunct /\ l.UPOS = "PUNCT"
    \/ IntRaises(l.HEAD)

Fields(l) ==
    [ID |-> ParsedID(l), FORM |-> l.FORM, UPOS |-> l.UPOS,
     HEAD |-> IntOf(l.HEAD), DEPREL |-> l.DEPREL]

Init ==
    /\ excludepunct \in BOOLEAN
    /\ line = NoLine
    /\ sent = <<>>
    /\ result = <<>>
    /\ keyerror = FALSE
    /\ pc = "reading"
    /\ metrics = [status |-> "none"]

\* The blank line with the KeyError of renumber left uncaught.
ReadBlankRaises ==
    /\ pc = "reading"
    /\ line' = BlankLine
    /\ IF sent # <<>>
       THEN /\ IF RenumberRaises(sent)
               THEN result' = result /\ keyerror' = TRUE /\ pc' = "KeyError"
               ELSE result' = Append(result, renumber(sent))
                    /\ keyerror' = keyerror /\ pc' = pc
            /\ sent' = <<>>
       ELSE UNCHANGED <<sent, result, keyerror, pc>>
    /\ UNCHANGED <<excludepunct, metrics>>

\* line == '\n'
ReadBlank ==
    /\ pc = "reading"
    /\ line' = BlankLine
    /\ IF sent # <<>>
       THEN /\ IF RenumberRaises(sent)
               THEN result' = result /\ keyerror' = TRUE
               ELSE result' = Append(result, renumber(sent))
                    /\ keyerror' = keyerror
            /\ sent' = <<>>
       ELSE UNCHANGED <<sent, result, keyerror>>
    /\ UNCHANGED <<excludepunct, pc, metrics>>

\* line.startswith('#')
ReadComment ==
    /\ pc = "reading"
    /\ line' = CommentLine
    /\ UNCHANGED <<excludepunct, sent, result, keyerror, pc, metrics>>

\* A token line where a HEAD that int rejects discards the pending sentence.
ReadTokenAbort(l) ==
    /\ pc = "reading"
    /\ Len(sent) + Tokens(result) < MaxTokens
    /\ line' = l
    /\ sent' = IF Skipped(l)
               THEN (IF IntRaises(l.HEAD) THEN <<>> ELSE sent)
               ELSE Append(sent, Fields(l))
    /\ UNCHANGED <<excludepunct, result, keyerror, pc, metrics>>

ReadToken(l) ==
    /\ pc = "reading"
    /\ Len(sent) + Tokens(result) < MaxTokens
    /\ line' = l
    /\ sent' = IF Skipped(l) THEN sent ELSE Append(sent, Fields(l))
    /\ UNCHANGED <<excludepunct, result, keyerror, pc, metrics>>

\* The end of the stream without the check of lines 166-167.
EndOfStreamReturns ==
    /\ pc = "reading"
    /\ pc' = "returned"
    /\ UNCHANGED <<excludepunct, line, sent, result, keyerror, metrics>>

\* The end of the stream flushing the pending sentence.
EndOfStreamFlush ==
    /\ pc = "reading"
    /\ result' = IF sent # <<>> /\ ~RenumberRaises(sent)
                 THEN Append(result, renumber(sent)) ELSE result
    /\ pc' = IF result' = <<>> THEN "nosentences" ELSE "returned"
    /\ UNCHANGED <<excludepunct, line, sent, keyerror, metrics>>

\* The stream ends: lines 166-168.
EndOfStream ==
    /\ pc = "reading"
    /\ pc' = IF result = <<>> THEN "nosentences" ELSE "returned"
    /\ UNCHANGED <<excludepunct, line, sent, result, keyerror, metrics>>

\* analyze, lines 190-191: the sentences read go to complexitymetrics, and
\* an exception it raises leaves analyze.
Analyze ==
    /\ pc = "returned"
    /\ metrics' = complexitymetrics(result)
    /\ pc' = IF metrics'.status = "ok" THEN "analyzed" ELSE "raised"
    /\ UNCHANGED <<excludepunct, line, sent, result, keyerror>>

Next ==
    \/ ReadBlank
    \/ ReadComment
    \/ \E l \in TokenLines : ReadToken(l)
    \/ EndOfStream
    \/ Analyze

Spec == Init /\ [][Next]_vars

----------------------------------------------------------------------------
(* Properties                                                              *)

\* conllureader has returned its result.
Returned == pc \in {"returned", "analyzed", "raised"}

\* A step that reads a blank line while a sentence is pending.
FlushStep == pc = "reading" /\ line'.kind = "blank" /\ sent # <<>>

\* A step that reads a token line whose HEAD int rejects.
BadHeadStep ==
    pc = "reading" /\ pc' = "reading" /\ line'.kind = "token"
    /\ IntRaises(line'.HEAD)

\* The quotient q is a / b.
Is(q, a, b) == q.den # 0 /\ q.num * b = a * q.den

\* C1: every sentence in result has n >= 1 tokens whose IDs are 1..n in
\* list order and whose HEADs are in 0..n.
C1_ContiguousIDs ==
    Returned =>
        \A k \in 1..Len(result) :
            LET s == result[k]
            IN  /\ Len(s) >= 1
                /\ \A n \in 1..Len(s) : s[n].ID = n /\ s[n].HEAD \in 0..Len(s)

\* C2: conllureader never returns an empty list of sentences; when no
\* sentence survives it ends with the 'no sentences' error.
C2_NeverReturnsEmpty ==
    /\ Returned => result # <<>>
    /\ pc = "nosentences" => result = <<>>
    /\ pc \in {"reading", "nosentences", "returned", "analyzed", "raised"}

\* C2, witness: the stream has ended with the only sentences discarded and
\* tokens still pending, and the error is raised.
C2_NoSentencesRaised == pc = "nosentences" /\ keyerror /\ sent # <<>>

\* C3, as claimed: a head that references an index not retained makes the
\* read fail, so conllureader never returns after such a sentence.
C3_DanglingHeadIsFatal == Returned => ~keyerror

\* C3, amended: the KeyError is caught in conllureader; the sentence is
\* omitted, result is left as it was and reading goes on.
C3_DanglingHeadOmitsSentence ==
    [][(FlushStep /\ RenumberRaises(sent))
          => /\ result' = result
             /\ sent' = <<>>
             /\ keyerror'
             /\ pc' = "reading"]_vars

\* C3, witness: a sentence was omitted for its head and conllureader has
\* returned the others.
C3_OmittedFromResult == pc = "returned" /\ keyerror /\ result # <<>>

TheCat ==
    <<[ID |-> 1, FORM |-> "The", UPOS |-> "DET", HEAD |-> 2, DEPREL |-> "det"],
      [ID |-> 2, FORM |-> "cat", UPOS |-> "NOUN", HEAD |-> 0, DEPREL |-> "root"]>>

\* C4, as claimed: the sentence (1 DET 2 det) (2 NOUN 0 root) has LEN 2,
\* MDD 1.0, ADJD 1.0, LEFT 1.0, CLS 1, CLL 2.0 and LXD 0.5.
C4_TheCatAsClaimed ==
    \A k \in 1..Len(result) :
        (pc = "analyzed" /\ result[k] = TheCat)
            => /\ metrics.LEN[k] = 2
               /\ Is(metrics.MDD[k], 1, 1)
               /\ Is(metrics.ADJD[k], 1, 1)
               /\ Is(metrics.LEFT[k], 1, 1)
               /\ metrics.CLS[k] = 1
               /\ Is(metrics.CLL[k], 2, 1)
               /\ Is(metrics.LXD[k], 1, 2)

\* C4, amended: that sentence has LEN 2, MDD 1.5, ADJD 0.5, LEFT 0.5, CLS 1,
\* CLL 2.0 and LXD 0.5.
C4_TheCatMetrics ==
    \A k \in 1..Len(result) :
        (pc = "analyzed" /\ result[k] = TheCat)
            => /\ metrics.LEN[k] = 2
               /\ Is(metrics.MDD[k], 3, 2)
               /\ Is(metrics.ADJD[k], 1, 2)
               /\ Is(metrics.LEFT[k], 1, 2)
               /\ metrics.CLS[k] = 1
               /\ Is(metrics.CLL[k], 2, 1)
               /\ Is(metrics.LXD[k], 1, 2)

\* C4, witness: the metrics of a file with that sentence have been computed.
C4_TheCatAnalyzed ==
    pc = "analyzed" /\ \E k \in 1..Len(result) : result[k] = TheCat

\* C5, as claimed: ADJD is at most 1, and 0 for a sentence of one token.
C5_ADJDZeroForOneToken ==
    pc = "analyzed" =>
        \A k \in 1..Len(result) :
            /\ metrics.ADJD[k].num <= metrics.ADJD[k].den
            /\ Len(result[k]) = 1 => Is(metrics.ADJD[k], 0, 1)

\* C5, amended: ADJD is at most 1, and for a sentence of one token it is 1:
\* complexitymetrics returns only when that token has HEAD 0, at distance 1
\* from its ID 1.
C5_ADJDOneForOneToken ==
    pc = "analyzed" =>
        \A k \in 1..Len(result) :
            /\ metrics.ADJD[k].num <= metrics.ADJD[k].den
            /\ metrics.ADJD[k].den = Len(result[k])
            /\ Len(result[k]) = 1 =>
                   Is(metrics.ADJD[k], 1, 1) /\ result[k][1].HEAD = 0

\* C5, witness: the metrics of a sentence of one token have been computed.
C5_OneTokenAnalyzed ==
    pc = "analyzed" /\ \E k \in 1..Len(result) : Len(result[k]) = 1

HasRootless == \E k \in 1..Len(result) : RootRaises(result[k])

\* C6, as claimed: with a sentence that has no 'root' the other metrics are
\* still produced.
C6_OtherMetricsProduced ==
    (pc \in {"analyzed", "raised"} /\ HasRootless)
        => {"LEN", "MDD", "ADJD", "LEFT", "MOD", "CLS", "CLL", "LXD"}
               \subseteq DOMAIN metrics

\* C6, amended: with a sentence that has no 'root' complexitymetrics raises
\* and produces no metric of any sentence; the exception is the root lookup
\* error unless the MDD of a sentence is undefined or zero.
C6_RootErrorAbortsAll ==
    (pc \in {"analyzed", "raised"} /\ HasRootless)
        => /\ pc = "raised"
           /\ DOMAIN metrics = {"status"}
           /\ metrics.status \in {"ZeroDivisionError",
                                  "ValueError: 'root' is not in list",
                                  "ValueError: math domain error"}
           /\ (\A k \in 1..Len(result) :
                   ~meanRaises(Distances(result[k])) /\ ~LogRaises(result[k]))
                => metrics.status = "ValueError: 'root' is not in list"

\* C6, witness: the first of two sentences has no 'root', the second has
\* one, and the root lookup error has left analyze.
C6_RootlessAmongOthers ==
    /\ pc = "raised"
    /\ Len(result) = 2
    /\ RootRaises(result[1])
    /\ ~RootRaises(result[2])
    /\ metrics.status = "ValueError: 'root' is not in list"

\* C7: result changes only when a blank line is read while a sentence is
\* pending, and then by one sentence appended after those already there,
\* made of the pending tokens in their order; with nothing pending a step
\* leaves result alone, and so does the end of the stream.
C7_EmittedOnlyAtBlankLine ==
    [][/\ result' # result =>
            /\ FlushStep
            /\ pc' = "reading"
            /\ sent' = <<>>
            /\ Len(result') = Len(result) + 1
            /\ SubSeq(result', 1, Len(result)) = result
            /\ Len(result'[Len(result')]) = Len(sent)
            /\ \A n \in 1..Len(sent) :
                   result'[Len(result')][n].FORM = sent[n].FORM
       /\ sent = <<>> => result' = result
       /\ pc' # "reading" => result' = result]_vars

\* C7, witness: conllureader has returned and the tokens read after the
\* last blank line are still pending, in no sentence.
C7_TrailingSentenceLost == pc = "returned" /\ sent # <<>>

\* C8: no token of a returned sentence comes from a line with a range or a
\* decimal ID (of the lines read only those have the forms "don't" and "e").
C8_NoRangeOrDecimalToken ==
    Returned =>
        \A k \in 1..Len(result) : \A n \in 1..Len(result[k]) :
            result[k][n].FORM \notin {"don't", "e"}

Right(s) == SeqSum([n \in 1..Len(s) |-> Bool(s[n].ID > s[n].HEAD)])

Self(s) == SeqSum([n \in 1..Len(s) |-> Bool(s[n].ID = s[n].HEAD)])

\* C9, as claimed: no token of a returned sentence is its own head, so the
\* left and the right dependents are all the tokens.
C9_NoSelfHead ==
    Returned =>
        \A k \in 1..Len(result) :
            /\ \A n \in 1..Len(result[k]) : result[k][n].ID # result[k][n].HEAD
            /\ LEFT(result[k]).num + Right(result[k]) = Len(result[k])

\* C9, amended: a token of an emitted sentence is its own head exactly when
\* the HEAD of its line equals the integer of its ID (the start of a range);
\* such lines are not rejected, and the left and right dependents are the
\* tokens that are not their own head.
C9_SelfHeadIffInInput ==
    [][(FlushStep /\ Len(result') = Len(result) + 1) =>
          LET new == result'[Len(result')]
          IN  /\ Len(new) = Len(sent)
              /\ \A n \in 1..Len(sent) :
                     (new[n].ID = new[n].HEAD) <=> (sent[n].ID = sent[n].HEAD)
              /\ LEFT(new).num + Right(new) = Len(new) - Self(sent)]_vars

\* C9, witness: a returned sentence has a token that is its own head.
C9_SelfHeadReturned ==
    /\ pc = "returned"
    /\ \E k \in 1..Len(result) : \E n \in 1..Len(result[k]) :
           result[k][n].ID = result[k][n].HEAD

\* The line last read was dropped for its HEAD alone.
BadHeadLine ==
    /\ line.kind = "token"
    /\ IntRaises(line.HEAD)
    /\ ~Contains(line.ID, ".")
    /\ ~(excludepunct /\ line.UPOS = "PUNCT")

\* C10, as claimed: the sentence of a token dropped for its HEAD is still
\* emitted at its blank line with its other tokens.
C10_SentenceStillEmitted ==
    [][(BadHeadLine /\ FlushStep) => Len(result') = Len(result) + 1]_vars

\* C10, amended: a HEAD that int rejects drops that token alone, the tokens
\* pending stay; at the blank line the sentence is emitted with them,
\* renumbered, unless one of their heads references an index not retained,
\* and then the whole sentence is omitted.
C10_OnlyTheTokenDropped ==
    [][/\ BadHeadStep => sent' = sent /\ result' = result
       /\ (BadHeadLine /\ FlushStep) =>
              /\ sent' = <<>>
              /\ pc' = "reading"
              /\ result' = IF RenumberRaises(sent) THEN result
                           ELSE Append(result, renumber(sent))]_vars

\* C10, witness: a line was just dropped for its HEAD and the other tokens
\* of its sentence are pending, their heads all retained.
C10_TokenDroppedOthersPending ==
    pc = "reading" /\ BadHeadLine /\ sent # <<>> /\ ~RenumberRaises(sent)

====
